---- MODULE Spec2Model ----
(***************************************************************************)
(* cartoframes/datasets.py: the Dataset facade (upload / delete / exists / *)
(* create_from_query) driving one remote table through the SQL, batch SQL  *)
(* and bulk-copy clients, and the recursive_read retry wrapper.            *)
(*                                                                         *)
(* Every public call is one action.  The remote service is a small state   *)
(* machine (one table: present or absent, with its columns and rows); what *)
(* a call sent to it, what it returned or raised and the remote state it   *)
(* started from are recorded in `call` (recursive_read: in `rd`).          *)
(* SpecRows runs one upload over a family of dataframes, for the schema    *)
(* and the lines of the bulk load.                                         *)
(*                                                                         *)
(* Transport exceptions the code has no handler for (a DROP or COPY that   *)
(* fails on a table the same call has just seen or created) cannot arise   *)
(* in a single-client run and are modelled only as the failing result of   *)
(* the statement.                                                          *)
(***************************************************************************)
EXTENDS Integers, Sequences, FiniteSets, TLC

VARIABLES remote, ds, call, rd, geo, hs

vars == <<remote, ds, call, rd, geo, hs>>

(* ------------------------------ bounds -------------------------------- *)

\* most rows the remote table may hold (caps append)
MaxRows == 3
\* largest retry_times handed to recursive_read
MaxRetry == 3
\* largest retry_after a rate-limit error carries
MaxRetryAfter == 2
\* largest coordinate of a point handed to _decode_geom
MaxCoord == 3
\* most rows of a dataframe handed to the row serializer
MaxDfRows == 2
\* largest limit handed to download
MaxLimit == 2

(* ------------------------------ inputs -------------------------------- *)

None == "None"

\* table names a caller may pass; both name the one remote table
TableNames == {"t", "T"}

(* a cell of a dataframe: a plain value (text: its str()), Python None, NaN,  *)
(* or a geometry in one of its representations (wkt, geom_type: the text and *)
(* the type the geometry library gives for the geometry it stands for)       *)
Cell(kind, text, wkt, geom_type) == [kind |-> kind, text |-> text, wkt |-> wkt, geom_type |-> geom_type]

Val(text) == Cell("value", text, None, None)

PyNone == Cell("none", "None", None, None)

NaN == Cell("nan", "nan", None, None)

EmptyStr == Cell("empty_str", "", None, None)

Garbage == Cell("garbage", "xyz", None, None)

\* a point as hex-encoded well-known-binary
HexWkbPoint == Cell("wkb_hex", "0101000000000000000000f03f0000000000000040", "POINT(1 2)", "Point")

\* a polygon as raw well-known-binary bytes
WkbPolygon == Cell("wkb_bytes", "b'\\x01\\x03'", "POLYGON ((0 0, 1 0, 1 1, 0 0))", "Polygon")

\* a point as well-known-text
WktPoint == Cell("wkt", "POINT(1 2)", "POINT(1 2)", "Point")

\* an already-structured geometry (it has geom_type and wkt)
ShapelyPoint == Cell("shapely", "POINT(1 2)", "POINT(1 2)", "Point")

\* the geometries handed to _decode_geom: their text and type
Geometries ==
    {[wkt |-> "POINT(" \o ToString(x) \o " " \o ToString(y) \o ")", geom_type |-> "Point"] :
        <<x, y>> \in (0..MaxCoord) \X (0..MaxCoord)}
    \cup {[wkt |-> "POLYGON ((0 0, 1 0, 1 1, 0 0))", geom_type |-> "Polygon"]}

\* the values handed to _decode_geom: None, NaN, the empty string, a string
\* that is no geometry, and each geometry in each of its representations
DecodeInputs ==
    {PyNone, NaN, EmptyStr, Garbage}
    \cup {Cell(kind, g.wkt, g.wkt, g.geom_type) :
             <<kind, g>> \in {"wkb_hex", "wkb_bytes", "wkt", "shapely"} \X Geometries}

\* a dataframe: ordered column names with their dtypes, row identities, the
\* cells of each row in column order, the index (name, dtype, one value per
\* row) and the _geometry_column_name attribute, None when it has none
DataFrame(columns, dtypes, rows, cells, index_name, index_dtype, index, geometry_column_name) ==
    [is_none |-> FALSE, columns |-> columns, dtypes |-> dtypes, rows |-> rows, cells |-> cells,
     index_name |-> index_name, index_dtype |-> index_dtype, index |-> index,
     geometry_column_name |-> geometry_column_name]

DfA ==
    DataFrame(<<"ID", "name", "the_geom">>, <<"int64", "object", "object">>, <<"a1", "a2">>,
              << <<Val("1"), Val("A"), HexWkbPoint>>, <<Val("2"), NaN, PyNone>> >>,
              None, "int64", <<Val("0"), Val("1")>>, None)

DfB ==
    DataFrame(<<"cartodb_id", "Lon", "lat">>, <<"int64", "float64", "float64">>, <<"b1">>,
              << <<Val("7"), Val("3"), Val("4")>> >>,
              "idx", "int64", <<Val("10")>>, None)

DataFrames == {DfA, DfB}

\* a family of dataframes: the column names and dtypes, the values each column
\* may hold and the _geometry_column_name attribute
Shape(columns, dtypes, domains, geometry_column_name) ==
    [columns |-> columns, dtypes |-> dtypes, domains |-> domains,
     geometry_column_name |-> geometry_column_name]

Shapes ==
    {Shape(<<"ID", "name", "the_geom">>, <<"int64", "object", "object">>,
           <<{Val("1")}, {Val("A"), NaN}, {HexWkbPoint, PyNone, NaN}>>, None),
     Shape(<<"the_geom", "ID">>, <<"object", "int64">>,
           <<{WkbPolygon, WktPoint, ShapelyPoint, EmptyStr, Garbage, PyNone}, {Val("1")}>>, None),
     Shape(<<"Lon", "lat", "ID">>, <<"float64", "float64", "int64">>,
           <<{Val("3"), NaN, PyNone}, {Val("4"), PyNone}, {Val("1")}>>, None),
     Shape(<<"cartodb_id", "ID", "the_geom_webmercator">>, <<"int64", "int64", "object">>,
           <<{Val("7")}, {Val("1"), PyNone}, {Val("wm")}>>, None),
     Shape(<<"THE_GEOM", "Lon", "lat">>, <<"object", "float64", "float64">>,
           <<{HexWkbPoint, PyNone}, {Val("3"), PyNone}, {Val("4")}>>, None),
     Shape(<<"ID", "name">>, <<"int64", "object">>,
           <<{Val("1")}, {Val("A"), NaN}>>, None),
     Shape(<<"geometry", "ID">>, <<"object", "int64">>,
           <<{WktPoint, PyNone}, {Val("1")}>>, None),
     Shape(<<"ID", "shape">>, <<"int64", "object">>,
           <<{Val("1")}, {ShapelyPoint, PyNone}>>, "shape")}

\* every value a cell of the family may hold
Cells ==
    {Val("1"), Val("A"), Val("3"), Val("4"), Val("7"), Val("wm"), PyNone, NaN, EmptyStr, Garbage,
     HexWkbPoint, WkbPolygon, WktPoint, ShapelyPoint}

\* the rows a dataframe of the shape may hold
RowsOf(shape) ==
    {row \in [1..Len(shape.columns) -> Cells] :
        \A i \in 1..Len(shape.columns) : row[i] \in shape.domains[i]}

\* the dataframes of the family: up to MaxDfRows rows, a default (unnamed) index
Frames ==
    UNION {{DataFrame(shape.columns, shape.dtypes, [i \in 1..n |-> "r" \o ToString(i)], cells,
                      None, "int64", [i \in 1..n |-> Val(ToString(i - 1))],
                      shape.geometry_column_name) :
               cells \in [1..n -> RowsOf(shape)]} :
           <<shape, n>> \in Shapes \X (0..MaxDfRows)}

\* the names the index of a dataframe may carry: none, a name that is no
\* column of any dataframe of the family, and names of columns
IndexNames == {None, "idx", "ID", "Lon"}

\* the dataframes of the family under each index name, the index holding
\* values of its own
IndexedFrames ==
    {[df EXCEPT !.index_name = name,
                !.index = [i \in 1..Len(df.rows) |-> Val(ToString(9 + i))]] :
        <<df, name>> \in Frames \X IndexNames}

\* df=None: a Dataset constructed without a dataframe
NoDf == [is_none |-> TRUE, columns |-> <<>>, dtypes |-> <<>>, rows |-> <<>>, cells |-> <<>>,
         index_name |-> None, index_dtype |-> None, index |-> <<>>, geometry_column_name |-> None]

\* the with_lonlat argument: None, or the (longitude, latitude) column names
NoLonLat == [is_none |-> TRUE, lng |-> None, lat |-> None]

LonLat(lng, lat) == [is_none |-> FALSE, lng |-> lng, lat |-> lat]

LonLatArgs == {NoLonLat, LonLat("Lon", "lat")}

\* the limit argument of download: None, an int, the float 2.0 or the str "2"
NoLimit == [kind |-> "none", n |-> 0]

IntLimit(n) == [kind |-> "int", n |-> n]

FloatLimit == [kind |-> "float", n |-> 2]

StrLimit == [kind |-> "str", n |-> 2]

Limits == {NoLimit, FloatLimit, StrLimit} \cup {IntLimit(n) : n \in (-1)..MaxLimit}

\* the exclude argument of get_table_column_names: None or a list of names
NoExclude == [is_none |-> TRUE, names |-> <<>>]

Exclude(names) == [is_none |-> FALSE, names |-> names]

Excludes == {NoExclude, Exclude(<<>>), Exclude(<<"the_geom", "cartodb_id">>)}

\* how the service answers the catalog query: with the rows, or with a
\* CartoException whose text is Access denied or something else
CatalogAnswers == {"rows", "Access denied", "service fault"}

\* normalized_column_names = None
NoMapping == [is_none |-> TRUE, pairs |-> <<>>]

\* the rows a CREATE TABLE ... AS (query) materialises
QueryRows == <<"q1">>

(* --------------------------- class constants -------------------------- *)

FAIL == "fail"

REPLACE == "replace"

APPEND == "append"

IfExistsPolicies == {FAIL, REPLACE, APPEND}

(* ---------------------------- exceptions ------------------------------ *)

NoExc == [type |-> "None", msg |-> "None", detail |-> "None"]

NoDataError == [type |-> "ValueError", msg |-> "You have to create a Dataset with a pandas DataFrame", detail |-> "None"]

AlreadyExistsError(table_name) == [type |-> "NameError", msg |-> "already exists in CARTO", detail |-> table_name]

CannotCreateError(failed_reason) == [type |-> "CartoException", msg |-> "Cannot create table", detail |-> failed_reason]

LimitError == [type |-> "ValueError", msg |-> "limit parameter must an integer >= 0", detail |-> "None"]

\* iterating over None
NoneTypeError == [type |-> "TypeError", msg |-> "NoneType object is not iterable", detail |-> "None"]

\* what sql_client.send / copy_client raise on a server-side failure
ServiceError(reason) == [type |-> "CartoException", msg |-> "sql api", detail |-> reason]

(* -------------------------- schema normalizer ------------------------- *)

RESERVED_COLUMN_NAMES == {"cartodb_id", "the_geom", "the_geom_webmercator"}

\* the column names taken for a geometry column
SUPPORTED_GEOM_COL_NAMES == {"the_geom", "geom", "geometry"}

\* str.lower on the names of the inputs
Lower(c) ==
    CASE c = "ID" -> "id"
      [] c = "T" -> "t"
      [] c = "Lon" -> "lon"
      [] c = "THE_GEOM" -> "the_geom"
      [] OTHER -> c

\* columns.normalize_names on the column names of the inputs: lower-cased
normalize_name(c) ==
    CASE c = "ID" -> "id"
      [] c = "T" -> "t"
      [] c = "Lon" -> "lon"
      [] c = "THE_GEOM" -> "the_geom"
      [] OTHER -> c

\* `name in df.columns`
HasColumn(df, name) == \E i \in 1..Len(df.columns) : df.columns[i] = name

\* mutant: set_index drops the column again
_save_index_as_column_dropped(df) == df

\* the column is added in front with the values of the index, which stays
_save_index_as_column(df) ==
    IF df.index_name # None /\ ~HasColumn(df, df.index_name)
    THEN [df EXCEPT !.columns = <<df.index_name>> \o df.columns,
                    !.dtypes = <<df.index_dtype>> \o df.dtypes,
                    !.cells = [i \in 1..Len(df.cells) |-> <<df.index[i]>> \o df.cells[i]]]
    ELSE df

_normalize_column_names(df) ==
    LET NotReserved(c) == c \notin RESERVED_COLUMN_NAMES
        column_names == SelectSeq(df.columns, NotReserved)
    IN [i \in 1..Len(column_names) |-> <<normalize_name(column_names[i]), column_names[i]>>]

\* Dataset.__init__
Dataset(table_name, df) ==
    [table_name |-> normalize_name(table_name),
     schema |-> "public",
     df |-> IF df.is_none THEN df ELSE _save_index_as_column(df),
     normalized_column_names |->
        IF df.is_none THEN NoMapping
        ELSE [is_none |-> FALSE, pairs |-> _normalize_column_names(_save_index_as_column(df))]]

(* --------------------------- geometry codec --------------------------- *)

\* no geometry: what _decode_geom returns for None; tried: the decode
\* attempts made, raised: the exception that left the function
NoGeom == [ok |-> FALSE, geom_type |-> None, wkt |-> None, by |-> 0, tried |-> <<>>, raised |-> None]

Geom(v, by) ==
    [ok |-> TRUE, geom_type |-> v.geom_type, wkt |-> v.wkt, by |-> by, tried |-> <<>>,
     raised |-> None]

\* the decode attempts of _decode_geom, in the order the code nests them
Decoders ==
    <<"wkb.loads(unhexlify(ewkb))", "wkb.loads(unhexlify(ewkb), hex=True)",
      "wkb.loads(ewkb, hex=True)", "wkb.loads(ewkb)", "wkt.loads(ewkb)">>

\* whether the attempt returns a geometry for the value (it raises otherwise)
DecoderLoads(d, v) ==
    CASE d = "wkb.loads(unhexlify(ewkb))" -> v.kind = "wkb_hex"
      [] d = "wkb.loads(unhexlify(ewkb), hex=True)" -> FALSE
      [] d = "wkb.loads(ewkb, hex=True)" -> v.kind = "wkb_hex"
      [] d = "wkb.loads(ewkb)" -> v.kind = "wkb_bytes"
      [] d = "wkt.loads(ewkb)" -> v.kind = "wkt"
      [] OTHER -> FALSE

RECURSIVE TryDecoders_uncaught(_, _)
\* mutant: the failure of the last attempt is not caught
TryDecoders_uncaught(v, i) ==
    IF DecoderLoads(Decoders[i], v) THEN [Geom(v, i) EXCEPT !.tried = <<Decoders[i]>>]
    ELSE IF i = Len(Decoders) THEN [NoGeom EXCEPT !.tried = <<Decoders[i]>>, !.raised = "Exception"]
    ELSE LET rest == TryDecoders_uncaught(v, i + 1)
         IN [rest EXCEPT !.tried = <<Decoders[i]>> \o rest.tried]

RECURSIVE TryDecoders(_, _)
\* lines 346-361: each failure falls through to the next attempt
TryDecoders(v, i) ==
    IF i > Len(Decoders) THEN NoGeom
    ELSE IF DecoderLoads(Decoders[i], v) THEN [Geom(v, i) EXCEPT !.tried = <<Decoders[i]>>]
    ELSE LET rest == TryDecoders(v, i + 1)
         IN [rest EXCEPT !.tried = <<Decoders[i]>> \o rest.tried]

\* _decode_geom with shapely installed
_decode_geom(ewkb) ==
    IF ewkb.kind = "shapely" THEN Geom(ewkb, 0)
    ELSE IF ewkb.kind \notin {"none", "empty_str"} THEN TryDecoders(ewkb, 1)
    ELSE NoGeom

\* _decode_geom as decorated: without shapely the import raises, after the
\* test for an already-structured geometry
wrapper(ewkb, installed) ==
    IF ewkb.kind = "shapely" \/ installed THEN _decode_geom(ewkb)
    ELSE [NoGeom EXCEPT !.raised = "ImportError"]

\* mutant: only None is taken for a null value
isnull_only_none(val) == val.kind = "none"

\* pd.isnull(val) or val is None
isnull(val) == val.kind \in {"none", "nan"}

\* position of the column in the dataframe, 0 when it has no such column
ColumnIndex(df, col) ==
    IF HasColumn(df, col) THEN CHOOSE i \in 1..Len(df.columns) :
                                  /\ df.columns[i] = col
                                  /\ \A j \in 1..(i - 1) : df.columns[j] # col
    ELSE 0

_get_geom_col_name(df) ==
    IF df.geometry_column_name # None THEN df.geometry_column_name
    ELSE IF \E i \in 1..Len(df.columns) : Lower(df.columns[i]) \in SUPPORTED_GEOM_COL_NAMES
    THEN df.columns[CHOOSE i \in 1..Len(df.columns) :
                       /\ Lower(df.columns[i]) \in SUPPORTED_GEOM_COL_NAMES
                       /\ \A j \in 1..(i - 1) : Lower(df.columns[j]) \notin SUPPORTED_GEOM_COL_NAMES]
    ELSE None

\* df[col].loc[~df[col].isnull()].iloc[0]; found = FALSE: IndexError
_first_not_null_value(df, col) ==
    LET c == ColumnIndex(df, col)
        notnull == {i \in 1..Len(df.cells) : ~(df.cells[i][c].kind \in {"none", "nan"})}
    IN IF notnull = {} THEN [found |-> FALSE, value |-> PyNone]
       ELSE [found |-> TRUE, value |-> df.cells[CHOOSE i \in notnull : \A j \in notnull : i <= j][c]]

\* the geometry type of the dataframe, None when it shows none
_get_geom_col_type(df) ==
    LET geom_col == _get_geom_col_name(df)
        first == _first_not_null_value(df, geom_col)
        geom == IF first.found THEN _decode_geom(first.value) ELSE NoGeom
    IN IF geom_col = None THEN None
       ELSE IF ~geom.ok THEN None
       ELSE geom.geom_type

_dtypes2pg(dtype) ==
    CASE dtype = "float64" -> "numeric"
      [] dtype = "int64" -> "integer"
      [] dtype = "float32" -> "numeric"
      [] dtype = "int32" -> "integer"
      [] dtype = "object" -> "text"
      [] dtype = "bool" -> "boolean"
      [] dtype = "datetime64[ns]" -> "timestamp"
      [] dtype = "datetime64[ns, UTC]" -> "timestamp"
      [] OTHER -> "text"

(* ------------------------- bulk row serializer ------------------------ *)

\* one csv_row += ...: the text added and whether a field separator ends it
Chunk(text, sep) == [text |-> text, sep |-> sep]

\* the loop variables of one row of _rows
RowStart == [csv_row |-> <<>>, the_geom_val |-> PyNone, lng_val |-> PyNone, lat_val |-> PyNone]

\* lines 127-140: the body of `for col in cols` for one column
RowCol(df, row, col, with_lonlat, geom_col, acc) ==
    LET raw == row[ColumnIndex(df, col)]
        val == IF isnull(raw) THEN "" ELSE raw.text
        lng == IF ~with_lonlat.is_none /\ col = with_lonlat.lng THEN raw ELSE acc.lng_val
        lat == IF ~with_lonlat.is_none /\ col = with_lonlat.lat THEN raw ELSE acc.lat_val
    IN IF ~with_lonlat.is_none /\ col \in SUPPORTED_GEOM_COL_NAMES THEN acc
       ELSE IF col = geom_col
       THEN [acc EXCEPT !.the_geom_val = raw, !.lng_val = lng, !.lat_val = lat]
       ELSE [acc EXCEPT !.csv_row = Append(acc.csv_row, Chunk(val, "|")),
                        !.lng_val = lng, !.lat_val = lat]

RECURSIVE RowCols(_, _, _, _, _, _, _)
\* lines 126-140: the columns of one row in order
RowCols(df, row, cols, k, with_lonlat, geom_col, acc) ==
    IF k > Len(cols) THEN acc
    ELSE RowCols(df, row, cols, k + 1, with_lonlat, geom_col,
                 RowCol(df, row, cols[k], with_lonlat, geom_col, acc))

\* lines 142-150: the geometry fields and the newline of one row
RowEnd(with_lonlat, acc) ==
    LET geom == _decode_geom(acc.the_geom_val)
        decoded == IF acc.the_geom_val.kind # "none" /\ geom.ok
                   THEN <<Chunk("SRID=4326;" \o geom.wkt, "")>> ELSE <<>>
        lonlat == IF ~with_lonlat.is_none /\ acc.lng_val.kind # "none" /\ acc.lat_val.kind # "none"
                  THEN <<Chunk("SRID=4326;POINT(" \o acc.lng_val.text \o " " \o acc.lat_val.text \o ")", "")>>
                  ELSE <<>>
    IN acc.csv_row \o decoded \o lonlat \o <<Chunk("", "\n")>>

\* mutant: a row whose geometry does not decode is passed over
_rows_skipping_undecoded(df, cols, with_lonlat, geom_col) ==
    LET Decodes(row) == \/ ColumnIndex(df, geom_col) = 0
                        \/ _decode_geom(row[ColumnIndex(df, geom_col)]).ok
        kept == SelectSeq(df.cells, Decodes)
    IN [i \in 1..Len(kept) |->
           RowEnd(with_lonlat, RowCols(df, kept[i], cols, 1, with_lonlat, geom_col, RowStart))]

\* Dataset._rows: the lines yielded, one list of chunks per line
_rows(df, cols, with_lonlat, geom_col) ==
    [i \in 1..Len(df.cells) |->
        RowEnd(with_lonlat, RowCols(df, df.cells[i], cols, 1, with_lonlat, geom_col, RowStart))]

RECURSIVE LineText(_)
\* the text of a line: its chunks joined
LineText(line) ==
    IF line = <<>> THEN ""
    ELSE Head(line).text \o Head(line).sep \o LineText(Tail(line))

(* --------------------------- remote service --------------------------- *)

\* one statement: verb, the IF EXISTS flag of a DROP, the table it names,
\* what else the statement lists (columns, the query of CREATE TABLE AS), for
\* a CREATE TABLE the type declared for each column, and the LIMIT of a read
Stmt(verb, if_exists, table_name, args) ==
    [verb |-> verb, if_exists |-> if_exists, table |-> table_name, args |-> args, types |-> <<>>,
     limit |-> None]

\* a column descriptor: Column(name, pgtype=...)
Column(name, pgtype) == [name |-> name, pgtype |-> pgtype]

AbsentTable == [exists |-> FALSE, rows |-> <<>>, columns |-> <<>>]

\* the columns of the table a CREATE TABLE AS (query) makes
QueryColumns == <<Column("q", "text")>>

\* CDB_CartodbfyTable: the table gets the columns of a CARTO table it lacks
Cartodbfied(columns) ==
    LET Lacks(name) == \A i \in 1..Len(columns) : columns[i].name # name
    IN columns
       \o (IF Lacks("cartodb_id") THEN <<Column("cartodb_id", "integer")>> ELSE <<>>)
       \o (IF Lacks("the_geom") THEN <<Column("the_geom", "geometry")>> ELSE <<>>)
       \o (IF Lacks("the_geom_webmercator") THEN <<Column("the_geom_webmercator", "geometry")>>
           ELSE <<>>)

\* the statements that only read
ReadOnlyVerbs == {"EXPLAIN SELECT", "SELECT information_schema.columns", "SELECT * LIMIT 0", "SELECT"}

\* the service executing one statement on the table: [ok, remote]
SqlExec(r, stmt, data) ==
    CASE stmt.verb = "EXPLAIN SELECT" -> [ok |-> r.exists, remote |-> r]
      [] stmt.verb = "DROP TABLE" ->
            IF r.exists THEN [ok |-> TRUE, remote |-> AbsentTable]
            ELSE [ok |-> stmt.if_exists, remote |-> r]
      [] stmt.verb = "CREATE TABLE" ->
            IF r.exists THEN [ok |-> FALSE, remote |-> r]
            ELSE [ok |-> TRUE,
                  remote |-> [exists |-> TRUE, rows |-> <<>>,
                              columns |-> [i \in 1..Len(stmt.args) |->
                                              Column(stmt.args[i], stmt.types[i])]]]
      [] stmt.verb = "CREATE TABLE AS" ->
            IF r.exists THEN [ok |-> FALSE, remote |-> r]
            ELSE [ok |-> TRUE, remote |-> [exists |-> TRUE, rows |-> data, columns |-> QueryColumns]]
      [] stmt.verb = "SELECT CDB_CartodbfyTable" ->
            IF r.exists THEN [ok |-> TRUE, remote |-> [r EXCEPT !.columns = Cartodbfied(r.columns)]]
            ELSE [ok |-> FALSE, remote |-> r]
      [] stmt.verb = "COPY" ->
            IF r.exists THEN [ok |-> TRUE, remote |-> [r EXCEPT !.rows = r.rows \o data]]
            ELSE [ok |-> FALSE, remote |-> r]
      [] stmt.verb = "SELECT information_schema.columns" -> [ok |-> TRUE, remote |-> r]
      [] stmt.verb = "SELECT * LIMIT 0" -> [ok |-> r.exists, remote |-> r]
      [] stmt.verb = "SELECT" -> [ok |-> r.exists /\ stmt.args # <<>>, remote |-> r]
      [] OTHER -> [ok |-> TRUE, remote |-> r]

RECURSIVE RunStmts(_, _, _)
\* the statements of a batch in order, stopping at the first that fails
RunStmts(r, stmts, data) ==
    IF stmts = <<>> THEN [ok |-> TRUE, remote |-> r]
    ELSE LET one == SqlExec(r, Head(stmts), data)
         IN IF one.ok THEN RunStmts(one.remote, Tail(stmts), data) ELSE one

\* batch_sql_client.create_and_wait_for_completion: the job and the table after
\* it; a BEGIN ... COMMIT batch that fails is rolled back
create_and_wait_for_completion(r, batch, data, fault) ==
    LET run == RunStmts(r, batch, data)
    IN IF fault THEN [job |-> [status |-> "failed", failed_reason |-> "service fault"], remote |-> r]
       ELSE IF ~run.ok THEN [job |-> [status |-> "failed", failed_reason |-> "statement failed"], remote |-> r]
       ELSE [job |-> [status |-> "done", failed_reason |-> None], remote |-> run.remote]

\* sql_client.send of one statement: raises on a server-side failure
sql_send(r, stmt, fault) ==
    LET run == SqlExec(r, stmt, <<>>)
    IN IF fault THEN [exc |-> ServiceError("service fault"), remote |-> r]
       ELSE IF ~run.ok THEN [exc |-> ServiceError("statement failed"), remote |-> r]
       ELSE [exc |-> NoExc, remote |-> run.remote]

\* what a call sent: the client used and the statements of the request
Sent(client, stmts) == [client |-> client, query |-> stmts]

\* what a method hands back: the table after it, the requests it sent, the
\* exception it raised (NoExc: none), its return value, and what the probe
\* and the batch job answered ("none": not asked)
Result(r, sent, exc, ret, probe, job) ==
    [remote |-> r, sent |-> sent, exc |-> exc, ret |-> ret, probe |-> probe,
     job |-> job.status, failed_reason |-> job.failed_reason, lines |-> <<>>,
     columns |-> <<>>, list |-> <<>>, names |-> {}]

NoJob == [status |-> "none", failed_reason |-> None]

(* ------------------------------ Dataset ------------------------------- *)

\* mutant: the if_exists argument is ignored, IF EXISTS is always written
_drop_table_query_always_if_exists(self, if_exists) == Stmt("DROP TABLE", TRUE, self.table_name, <<>>)

_drop_table_query(self, if_exists) == Stmt("DROP TABLE", if_exists, self.table_name, <<>>)

_create_table_from_query(self, query) == Stmt("CREATE TABLE AS", FALSE, self.table_name, <<query>>)

\* the dtype of the dataframe column
DtypeOf(df, orig) == df.dtypes[ColumnIndex(df, orig)]

\* mutant: the geometry column is declared whatever the dataframe holds
geom_type_of_always_point(self, with_lonlat) == "Point"

\* lines 162-165: the geometry type the table is created with, None for none
geom_type_of(self, with_lonlat) ==
    IF with_lonlat.is_none THEN _get_geom_col_type(self.df) ELSE "Point"

\* the CREATE TABLE statement: its table, the normalized columns it declares
\* in mapping order with their types, and the_geom when a geometry type is known
_create_table_query(self, with_lonlat) ==
    LET pairs == self.normalized_column_names.pairs
        geom_type == geom_type_of(self, with_lonlat)
        the_geom == geom_type # None
    IN [Stmt("CREATE TABLE", FALSE, self.table_name,
             [i \in 1..Len(pairs) |-> pairs[i][1]] \o (IF the_geom THEN <<"the_geom">> ELSE <<>>))
        EXCEPT !.types = [i \in 1..Len(pairs) |-> _dtypes2pg(DtypeOf(self.df, pairs[i][2]))]
                         \o (IF the_geom THEN <<"geometry(" \o geom_type \o ", 4326)">> ELSE <<>>)]

_cartodbfy_query(self) == Stmt("SELECT CDB_CartodbfyTable", FALSE, self.table_name, <<>>)

Begin == Stmt("BEGIN", FALSE, None, <<>>)

Commit == Stmt("COMMIT", FALSE, None, <<>>)

\* mutant: only a failing statement is read as "no such table", any other
\* service error is raised to the caller
exists_raising_other_errors(self, r, probeFault) ==
    LET probe == Stmt("EXPLAIN SELECT", FALSE, self.table_name, <<>>)
        res == sql_send(r, probe, probeFault)
    IN Result(r, <<Sent("sql", <<probe>>)>>,
              IF res.exc # NoExc /\ res.exc.detail # "statement failed" THEN res.exc ELSE NoExc,
              IF res.exc = NoExc THEN "True" ELSE "False",
              IF res.exc = NoExc THEN "ok" ELSE res.exc.detail, NoJob)

\* Dataset.exists: the probe, any CartoException read as "no such table"
exists(self, r, probeFault) ==
    LET probe == Stmt("EXPLAIN SELECT", FALSE, self.table_name, <<>>)
        res == sql_send(r, probe, probeFault)
    IN Result(r, <<Sent("sql", <<probe>>)>>, NoExc,
              IF res.exc = NoExc THEN "True" ELSE "False",
              IF res.exc = NoExc THEN "ok" ELSE res.exc.detail, NoJob)

\* mutant: the statements are not wrapped in BEGIN and COMMIT
_create_table_outside_transaction(self, r, with_lonlat, jobFault) ==
    LET batch == <<_drop_table_query(self, TRUE), _create_table_query(self, with_lonlat),
                   _cartodbfy_query(self)>>
        res == create_and_wait_for_completion(r, batch, <<>>, jobFault)
    IN Result(res.remote, <<Sent("batch", batch)>>,
              IF res.job.status # "done" THEN CannotCreateError(res.job.failed_reason) ELSE NoExc,
              None, "none", res.job)

\* Dataset._create_table: one batch, its job status checked
_create_table(self, r, with_lonlat, jobFault) ==
    LET batch == <<Begin, _drop_table_query(self, TRUE), _create_table_query(self, with_lonlat),
                   _cartodbfy_query(self), Commit>>
        res == create_and_wait_for_completion(r, batch, <<>>, jobFault)
    IN Result(res.remote, <<Sent("batch", batch)>>,
              IF res.job.status # "done" THEN CannotCreateError(res.job.failed_reason) ELSE NoExc,
              None, "none", res.job)

\* line 117: the dataframe columns handed to _rows
CopyCols(df) ==
    LET NotId(c) == c # "cartodb_id"
    IN SelectSeq(df.columns, NotId)

\* Dataset._copyfrom: the lines of _rows, one per row of the dataframe,
\* through the bulk-copy client
_copyfrom(self, r, with_lonlat) ==
    LET geom_col == _get_geom_col_name(self.df)
        copy == Stmt("COPY", FALSE, self.table_name,
                     [i \in 1..Len(self.normalized_column_names.pairs) |->
                         self.normalized_column_names.pairs[i][1]] \o <<"the_geom">>)
        lines == _rows(self.df, CopyCols(self.df), with_lonlat, geom_col)
        run == SqlExec(r, copy, SubSeq(self.df.rows, 1, Len(lines)))
    IN [Result(run.remote, <<Sent("copy", <<copy>>)>>,
               IF run.ok THEN NoExc ELSE ServiceError("statement failed"), None, "none", NoJob)
        EXCEPT !.lines = lines]

\* a method body continued by `next` unless `first` raised
Then(first, next) ==
    IF first.exc # NoExc THEN first
    ELSE [next EXCEPT !.sent = first.sent \o next.sent,
                      !.probe = IF first.probe # "none" THEN first.probe ELSE next.probe,
                      !.job = IF first.job # "none" THEN first.job ELSE next.job,
                      !.failed_reason = IF first.job # "none" THEN first.failed_reason
                                        ELSE next.failed_reason]

\* mutant: the replace policy does not recreate the table
upload_creates_only_if_absent(present, if_exists) == ~present

\* Dataset.upload, lines 54-62: the table is (re)created before the load
upload_creates(present, if_exists) == ~present \/ if_exists = REPLACE

\* Dataset.upload, lines 57-60: the existing table is a conflict
upload_conflicts(present, if_exists) == present /\ if_exists = FAIL

\* mutant: the dataframe check is missing
upload_lacks_data_unchecked(self) == FALSE

\* Dataset.upload, lines 51-52: no dataframe is bound
upload_lacks_data(self) == self.df.is_none

\* Dataset.upload
upload(self, r, with_lonlat, if_exists, probeFault, jobFault) ==
    IF upload_lacks_data(self) THEN Result(r, <<>>, NoDataError, None, "none", NoJob)
    ELSE LET p == exists(self, r, probeFault)
             present == p.ret = "True"
             raised == Result(r, <<>>, AlreadyExistsError(self.table_name), None, "none", NoJob)
             created == IF upload_creates(present, if_exists)
                        THEN _create_table(self, r, with_lonlat, jobFault)
                        ELSE Result(r, <<>>, NoExc, None, "none", NoJob)
             loaded == [_copyfrom(self, created.remote, with_lonlat) EXCEPT !.ret = "self"]
         IN IF upload_conflicts(present, if_exists) THEN Then(p, raised)
            ELSE Then(p, Then(created, loaded))

\* Dataset.delete
delete(self, r, probeFault) ==
    LET p == exists(self, r, probeFault)
        drop == _drop_table_query(self, FALSE)
        res == sql_send(r, drop, FALSE)
    IN IF p.ret = "True"
       THEN Then(p, Result(res.remote, <<Sent("sql", <<drop>>)>>, res.exc,
                         IF res.exc = NoExc THEN "True" ELSE None, "none", NoJob))
       ELSE [p EXCEPT !.ret = "False"]

\* Dataset.create_from_query: the batch is sent, its job result is dropped
create_from_query(r, query, table_name, jobFault) ==
    LET dataset == Dataset(table_name, NoDf)
        batch == <<Begin, _drop_table_query(dataset, TRUE), _create_table_from_query(dataset, query),
                   _cartodbfy_query(dataset), Commit>>
        res == create_and_wait_for_completion(r, batch, QueryRows, jobFault)
    IN Result(res.remote, <<Sent("batch", batch)>>, NoExc, "dataset", "none", res.job)

\* the elements of a list
Elements(list) == {list[i] : i \in 1..Len(list)}

\* context.fetch(query, decode_geom=...): the query result as a dataframe
fetch(r, query, decode_geom) ==
    LET run == SqlExec(r, query, <<>>)
    IN Result(r, <<Sent("fetch", <<query>>)>>,
              IF run.ok THEN NoExc ELSE ServiceError("statement failed"),
              IF ~run.ok THEN None
              ELSE IF decode_geom THEN "dataframe, geometry decoded" ELSE "dataframe",
              "none", NoJob)

\* get_columns: the zero-row probe, descriptors from the fields of its answer
get_columns(self, r) ==
    LET col_query == Stmt("SELECT * LIMIT 0", FALSE, self.table_name, <<>>)
        run == SqlExec(r, col_query, <<>>)
    IN IF run.ok
       THEN [Result(r, <<Sent("sql", <<col_query>>)>>, NoExc, "list", "none", NoJob)
             EXCEPT !.columns = [i \in 1..Len(r.columns) |->
                                    Column(r.columns[i].name, r.columns[i].pgtype)]]
       ELSE Result(r, <<Sent("sql", <<col_query>>)>>, ServiceError("statement failed"),
                   None, "none", NoJob)

\* mutant: an access-denied catalog query is not answered by the probe
falls_back_never(answer) == FALSE

\* line 208: the error of the catalog query is the access-denied one
falls_back(answer) == answer = "Access denied"

\* Dataset.get_table_columns: the catalog query; on Access denied the probe;
\* on any other CartoException nothing is returned (None)
get_table_columns(self, r, answer) ==
    LET query == Stmt("SELECT information_schema.columns", FALSE, self.table_name, <<>>)
        asked == Result(r, <<Sent("sql", <<query>>)>>, NoExc, None, "none", NoJob)
    IN IF answer = "rows"
       THEN [asked EXCEPT !.ret = "list",
                          !.columns = [i \in 1..Len(r.columns) |->
                                          Column(r.columns[i].name, r.columns[i].pgtype)]]
       ELSE IF falls_back(answer) THEN Then(asked, get_columns(self, r))
       ELSE asked

\* line 188: isinstance(limit, int) and (limit >= 0)
limit_is_valid(limit) == limit.kind = "int" /\ limit.n >= 0

\* Dataset._get_read_query: the query, or the exception raised instead
_get_read_query(self, table_columns, limit) ==
    LET NotWebmercator(column) == column.name # "the_geom_webmercator"
        kept == SelectSeq(table_columns.columns, NotWebmercator)
        query == Stmt("SELECT", FALSE, self.table_name, [i \in 1..Len(kept) |-> kept[i].name])
    IN IF table_columns.is_none THEN [exc |-> NoneTypeError, query |-> query]
       ELSE IF limit.kind = "none" THEN [exc |-> NoExc, query |-> query]
       ELSE IF limit_is_valid(limit)
       THEN [exc |-> NoExc, query |-> [query EXCEPT !.limit = ToString(limit.n)]]
       ELSE [exc |-> LimitError, query |-> query]

\* mutant: the table is emptied and reloaded through the bulk-copy client
download_by_copy(self, r, limit, decode_geom, answer) ==
    LET copy == Stmt("COPY", FALSE, self.table_name, <<>>)
    IN Result([r EXCEPT !.rows = <<>>], <<Sent("copy", <<copy>>)>>, NoExc, "dataframe", "none", NoJob)

\* Dataset.download
download(self, r, limit, decode_geom, answer) ==
    LET table_columns == get_table_columns(self, r, answer)
        read == _get_read_query(self, [is_none |-> table_columns.ret = None,
                                       columns |-> table_columns.columns], limit)
        got == [table_columns EXCEPT !.columns = <<>>]
    IN IF table_columns.exc # NoExc THEN table_columns
       ELSE IF read.exc # NoExc THEN Then(got, Result(r, <<>>, read.exc, None, "none", NoJob))
       ELSE Then(got, fetch(r, read.query, decode_geom))

\* Dataset.get_table_column_names: the names, less the excluded ones (then
\* in no particular order: through a set)
get_table_column_names(self, r, exclude, answer) ==
    LET table_columns == get_table_columns(self, r, answer)
        columns == [i \in 1..Len(table_columns.columns) |-> table_columns.columns[i].name]
        got == [table_columns EXCEPT !.columns = <<>>]
    IN IF table_columns.exc # NoExc THEN table_columns
       ELSE IF table_columns.ret = None
       THEN Then(got, Result(r, <<>>, NoneTypeError, None, "none", NoJob))
       ELSE IF ~exclude.is_none /\ exclude.names # <<>>
       THEN [got EXCEPT !.ret = "list in set order",
                        !.names = Elements(columns) \ Elements(exclude.names)]
       ELSE [got EXCEPT !.ret = "list", !.list = columns, !.names = Elements(columns)]

(* --------------------------- recursive_read --------------------------- *)

\* what one copy_client.copyto_stream invocation does: hand back the stream,
\* raise a CartoRateLimitException carrying retry_after, or raise another error
StreamOk == [kind |-> "ok", retry_after |-> 0]

RateLimited(retry_after) == [kind |-> "rate_limit", retry_after |-> retry_after]

OtherError == [kind |-> "error", retry_after |-> 0]

TransportOutcomes == {StreamOk, OtherError} \cup {RateLimited(s) : s \in 1..MaxRetryAfter}

\* the transport answers its i-th invocation with script[i]
ScriptLen == MaxRetry + 2

NoReadExc == [type |-> "None", retry_after |-> 0, at |-> 0]

\* the exception the at-th invocation raised
ReadExc(outcome, at) ==
    [type |-> IF outcome.kind = "rate_limit" THEN "CartoRateLimitException" ELSE "CartoException",
     retry_after |-> outcome.retry_after, at |-> at]

\* mutant: the attempt test is off by one
retries_off_by_one(retry_times) == retry_times >= 0

\* lines 229-238: a caught rate limit is retried while attempts remain
retries(retry_times) == retry_times > 0

\* mutant: a fixed back-off instead of the one the server asked for
sleep_for_fixed(err) == 1

\* line 232: how long the wrapper sleeps after the caught error
sleep_for(err) == err.retry_after

RECURSIVE recursive_read_backing_off_last(_, _, _)
\* mutant: the wrapper also sleeps before it re-raises the last rate limit
recursive_read_backing_off_last(script, at, retry_times) ==
    LET outcome == script[at]
        err == ReadExc(outcome, at)
    IN IF outcome.kind = "ok"
       THEN [events |-> <<"copyto_stream">>, sleeps |-> <<>>, raised |-> NoReadExc,
             value |-> "stream", at |-> at]
       ELSE IF outcome.kind # "rate_limit"
       THEN [events |-> <<"copyto_stream">>, sleeps |-> <<>>, raised |-> err,
             value |-> None, at |-> at]
       ELSE IF retries(retry_times)
       THEN LET again == recursive_read_backing_off_last(script, at + 1, retry_times - 1)
            IN [again EXCEPT !.events = <<"copyto_stream", "warn", "sleep", "warn">> \o again.events,
                             !.sleeps = <<sleep_for(err)>> \o again.sleeps]
       ELSE [events |-> <<"copyto_stream", "warn", "sleep">>, sleeps |-> <<sleep_for(err)>>,
             raised |-> err, value |-> None, at |-> at]

RECURSIVE recursive_read(_, _, _)
\* recursive_read, the transport being at its at-th invocation: the events in
\* order, the sleeps, and the stream returned or the exception raised
recursive_read(script, at, retry_times) ==
    LET outcome == script[at]
        err == ReadExc(outcome, at)
    IN IF outcome.kind = "ok"
       THEN [events |-> <<"copyto_stream">>, sleeps |-> <<>>, raised |-> NoReadExc,
             value |-> "stream", at |-> at]
       ELSE IF outcome.kind # "rate_limit"
       THEN [events |-> <<"copyto_stream">>, sleeps |-> <<>>, raised |-> err,
             value |-> None, at |-> at]
       ELSE IF retries(retry_times)
       THEN LET again == recursive_read(script, at + 1, retry_times - 1)
            IN [again EXCEPT !.events = <<"copyto_stream", "warn", "sleep", "warn">> \o again.events,
                             !.sleeps = <<sleep_for(err)>> \o again.sleeps]
       ELSE [events |-> <<"copyto_stream", "warn">>, sleeps |-> <<>>, raised |-> err,
             value |-> None, at |-> at]

(* ------------------------------- state -------------------------------- *)

\* mutant: upload forgets the column mapping
SelfAfter_unmapped(self, op) ==
    IF op = "upload" THEN [self EXCEPT !.normalized_column_names = NoMapping] ELSE self

\* the object after a method other than __init__: no attribute is assigned
SelfAfter(self, op) == self

\* the last call: the method, the object and the table it started from, its
\* policy, and what it sent, got, raised and returned
Call(op, self, if_exists, pre, res) ==
    [op |-> op, self |-> self, if_exists |-> if_exists, pre |-> pre,
     probe |-> res.probe, job |-> res.job, failed_reason |-> res.failed_reason, sent |-> res.sent,
     raised |-> res.exc, value |-> res.ret, with_lonlat |-> NoLonLat, lines |-> res.lines,
     columns |-> res.columns, list |-> res.list, names |-> res.names,
     limit |-> NoLimit, answer |-> "none", df |-> NoDf]

\* the last _decode_geom call: its argument and what it did
NoDecode == [pc |-> "idle", ewkb |-> PyNone, installed |-> TRUE, result |-> NoGeom]

\* no handle is running an upload concurrently with another
NoHandles == <<>>

\* a handle about to run upload(with_lonlat, if_exists='fail'): where it is
\* in the method, what its probe answered and what it raised
Handle(self, with_lonlat) ==
    [self |-> self, with_lonlat |-> with_lonlat, if_exists |-> FAIL, pc |-> "upload",
     present |-> FALSE, raised |-> NoExc]

\* the last recursive_read call: its arguments and what it did
NoRead == [pc |-> "idle", retry_times |-> 0, script |-> <<>>, events |-> <<>>, sleeps |-> <<>>,
           raised |-> NoReadExc, value |-> None, at |-> 0]

Init ==
    /\ remote = AbsentTable
    /\ \E n \in TableNames, df \in DataFrames \cup {NoDf} :
          /\ ds = Dataset(n, df)
          /\ call = [Call("__init__", ds, None, remote,
                          Result(remote, <<>>, NoExc, None, "none", NoJob)) EXCEPT !.df = df]
    /\ rd = NoRead
    /\ geo = NoDecode
    /\ hs = NoHandles

Construct ==
    \E n \in TableNames, df \in DataFrames \cup {NoDf} :
        /\ ds' = Dataset(n, df)
        /\ call' = [Call("__init__", ds', None, remote,
                          Result(remote, <<>>, NoExc, None, "none", NoJob)) EXCEPT !.df = df]
        /\ UNCHANGED <<remote, rd, geo, hs>>

CreateFromQuery ==
    \E n \in TableNames, jobFault \in BOOLEAN :
        LET res == create_from_query(remote, "query", n, jobFault)
        IN /\ remote' = res.remote
           /\ ds' = Dataset(n, NoDf)
           /\ call' = Call("create_from_query", ds', None, remote, res)
           /\ UNCHANGED <<rd, geo, hs>>

\* one upload(with_lonlat, if_exists) call on the service answering by the faults
UploadWith(with_lonlat, if_exists, probeFault, jobFault) ==
    LET res == upload(ds, remote, with_lonlat, if_exists, probeFault, jobFault)
    IN /\ Len(res.remote.rows) <= MaxRows
       /\ remote' = res.remote
       /\ ds' = SelfAfter(ds, "upload")
       /\ call' = [Call("upload", ds, if_exists, remote, res) EXCEPT !.with_lonlat = with_lonlat]
       /\ UNCHANGED <<rd, geo, hs>>

Upload ==
    \E with_lonlat \in LonLatArgs, if_exists \in IfExistsPolicies,
       probeFault \in BOOLEAN, jobFault \in BOOLEAN :
        UploadWith(with_lonlat, if_exists, probeFault, jobFault)

Delete ==
    \E probeFault \in BOOLEAN :
        LET res == delete(ds, remote, probeFault)
        IN /\ remote' = res.remote
           /\ ds' = SelfAfter(ds, "delete")
           /\ call' = Call("delete", ds, None, remote, res)
           /\ UNCHANGED <<rd, geo, hs>>

Exists ==
    \E probeFault \in BOOLEAN :
        LET res == exists(ds, remote, probeFault)
        IN /\ remote' = res.remote
           /\ ds' = SelfAfter(ds, "exists")
           /\ call' = Call("exists", ds, None, remote, res)
           /\ UNCHANGED <<rd, geo, hs>>

Download ==
    \E limit \in Limits, decode_geom \in BOOLEAN, answer \in CatalogAnswers :
        LET res == download(ds, remote, limit, decode_geom, answer)
        IN /\ remote' = res.remote
           /\ ds' = SelfAfter(ds, "download")
           /\ call' = [Call("download", ds, None, remote, res)
                       EXCEPT !.limit = limit, !.answer = answer]
           /\ UNCHANGED <<rd, geo, hs>>

GetTableColumns ==
    \E answer \in CatalogAnswers :
        LET res == get_table_columns(ds, remote, answer)
        IN /\ remote' = res.remote
           /\ ds' = SelfAfter(ds, "get_table_columns")
           /\ call' = [Call("get_table_columns", ds, None, remote, res) EXCEPT !.answer = answer]
           /\ UNCHANGED <<rd, geo, hs>>

GetTableColumnNames ==
    \E exclude \in Excludes, answer \in CatalogAnswers :
        LET res == get_table_column_names(ds, remote, exclude, answer)
        IN /\ remote' = res.remote
           /\ ds' = SelfAfter(ds, "get_table_column_names")
           /\ call' = [Call("get_table_column_names", ds, None, remote, res)
                       EXCEPT !.answer = answer]
           /\ UNCHANGED <<rd, geo, hs>>

Next ==
    \/ Construct \/ CreateFromQuery \/ Upload \/ Delete \/ Exists
    \/ Download \/ GetTableColumns \/ GetTableColumnNames

Spec == Init /\ [][Next]_vars

\* the table another client of the service leaves behind when it creates it
OtherTable == [exists |-> TRUE, rows |-> <<>>, columns |-> Cartodbfied(<<Column("x", "text")>>)]

\* another client of the service creates or drops the table between two calls
OtherClient ==
    /\ remote' \in {AbsentTable, OtherTable}
    /\ remote' # remote
    /\ UNCHANGED <<ds, call, rd, geo, hs>>

NextShared == Next \/ OtherClient

\* the calls of one handle on a table that other clients create and drop
SpecShared == Init /\ [][NextShared]_vars

\* two handles on the same table name, absent from the service, each about
\* to run upload(with_lonlat, if_exists='fail')
InitTwo ==
    /\ remote = AbsentTable
    /\ ds = Dataset("t", NoDf)
    /\ call = Call("__init__", ds, None, remote, Result(remote, <<>>, NoExc, None, "none", NoJob))
    /\ rd = NoRead
    /\ geo = NoDecode
    /\ \E df1 \in DataFrames, df2 \in DataFrames, w1 \in LonLatArgs, w2 \in LonLatArgs :
          hs = <<Handle(Dataset("t", df1), w1), Handle(Dataset("t", df2), w2)>>

\* line 54: the probe of the handle, answered by the table as it is now
UploadProbe(h) ==
    /\ hs[h].pc = "upload"
    /\ LET p == exists(hs[h].self, remote, FALSE)
       IN hs' = [hs EXCEPT ![h] = [@ EXCEPT !.pc = "probed", !.present = (p.ret = "True")]]
    /\ UNCHANGED <<remote, ds, call, rd, geo>>

\* lines 57-60: the probe found the table
UploadConflict(h) ==
    /\ hs[h].pc = "probed"
    /\ upload_conflicts(hs[h].present, hs[h].if_exists)
    /\ hs' = [hs EXCEPT ![h] = [@ EXCEPT !.pc = "returned",
                                         !.raised = AlreadyExistsError(hs[h].self.table_name)]]
    /\ UNCHANGED <<remote, ds, call, rd, geo>>

\* line 55: the batch of the handle, run by the service as one transaction
UploadCreate(h) ==
    /\ hs[h].pc = "probed"
    /\ upload_creates(hs[h].present, hs[h].if_exists)
    /\ LET created == _create_table(hs[h].self, remote, hs[h].with_lonlat, FALSE)
       IN /\ remote' = created.remote
          /\ hs' = [hs EXCEPT ![h] = [@ EXCEPT !.pc = IF created.exc = NoExc THEN "created"
                                                       ELSE "returned",
                                               !.raised = created.exc]]
    /\ UNCHANGED <<ds, call, rd, geo>>

\* lines 64-66: the bulk load of the handle into the table as it is now
UploadCopy(h) ==
    /\ hs[h].pc = "created"
    /\ LET loaded == _copyfrom(hs[h].self, remote, hs[h].with_lonlat)
       IN /\ remote' = loaded.remote
          /\ hs' = [hs EXCEPT ![h] = [@ EXCEPT !.pc = "returned", !.raised = loaded.exc]]
    /\ UNCHANGED <<ds, call, rd, geo>>

NextTwo ==
    \E h \in 1..2 : UploadProbe(h) \/ UploadConflict(h) \/ UploadCreate(h) \/ UploadCopy(h)

\* two uploads with if_exists='fail' on one table name, their remote calls
\* interleaved
SpecTwo == InitTwo /\ [][NextTwo]_vars

\* a caller about to construct Dataset(cc, "t", df=df)
InitIndex ==
    /\ remote = AbsentTable
    /\ ds = Dataset("t", NoDf)
    /\ \E df \in IndexedFrames :
          call = [Call("idle", ds, None, remote, Result(remote, <<>>, NoExc, None, "none", NoJob))
                    EXCEPT !.df = df]
    /\ rd = NoRead
    /\ geo = NoDecode
    /\ hs = NoHandles

ConstructIndexed ==
    /\ call.op = "idle"
    /\ ds' = Dataset("t", call.df)
    /\ call' = [Call("__init__", ds', None, remote,
                     Result(remote, <<>>, NoExc, None, "none", NoJob)) EXCEPT !.df = call.df]
    /\ UNCHANGED <<remote, rd, geo, hs>>

NextIndex == ConstructIndexed

\* the constructor alone, over the dataframe family under each index name
SpecIndex == InitIndex /\ [][NextIndex]_vars

\* a caller about to invoke _decode_geom(ewkb), shapely installed or not
InitGeom ==
    /\ remote = AbsentTable
    /\ ds = Dataset("t", NoDf)
    /\ call = Call("__init__", ds, None, remote, Result(remote, <<>>, NoExc, None, "none", NoJob))
    /\ rd = NoRead
    /\ \E ewkb \in DecodeInputs, installed \in BOOLEAN :
          geo = [NoDecode EXCEPT !.pc = "called", !.ewkb = ewkb, !.installed = installed]
    /\ hs = NoHandles

Decode ==
    /\ geo.pc = "called"
    /\ geo' = [geo EXCEPT !.pc = "returned", !.result = wrapper(geo.ewkb, geo.installed)]
    /\ UNCHANGED <<remote, ds, call, rd, hs>>

NextGeom == Decode

\* the geometry decoder alone, over every input value
SpecGeom == InitGeom /\ [][NextGeom]_vars

\* a caller about to invoke recursive_read(context, query, retry_times) on a
\* transport that will answer by `script`
InitRead ==
    /\ remote = AbsentTable
    /\ ds = Dataset("t", NoDf)
    /\ call = Call("__init__", ds, None, remote, Result(remote, <<>>, NoExc, None, "none", NoJob))
    /\ \E retry_times \in 0..MaxRetry, script \in [1..ScriptLen -> TransportOutcomes] :
          rd = [NoRead EXCEPT !.pc = "called", !.retry_times = retry_times, !.script = script]
    /\ geo = NoDecode
    /\ hs = NoHandles

Read ==
    /\ rd.pc = "called"
    /\ LET res == recursive_read(rd.script, 1, rd.retry_times)
       IN rd' = [rd EXCEPT !.pc = "returned", !.events = res.events, !.sleeps = res.sleeps,
                           !.raised = res.raised, !.value = res.value, !.at = res.at]
    /\ UNCHANGED <<remote, ds, call, geo, hs>>

NextRead == Read

\* the read wrapper alone: every retry budget against every transport script
SpecRead == InitRead /\ [][NextRead]_vars

\* the read wrapper runs in the thread of its caller: a call that was made
\* is carried out
SpecReadLive == InitRead /\ [][NextRead]_vars /\ WF_vars(Read)

\* a Dataset just constructed on a dataframe of the family, the table absent
InitRows ==
    /\ remote = AbsentTable
    /\ \E df \in Frames :
          /\ ds = Dataset("t", df)
          /\ call = [Call("__init__", ds, None, remote,
                          Result(remote, <<>>, NoExc, None, "none", NoJob)) EXCEPT !.df = df]
    /\ rd = NoRead
    /\ geo = NoDecode
    /\ hs = NoHandles

\* its first call: upload, the service answering without fault
UploadRows ==
    /\ call.op = "__init__"
    /\ \E with_lonlat \in LonLatArgs, if_exists \in IfExistsPolicies :
          UploadWith(with_lonlat, if_exists, FALSE, FALSE)

NextRows == UploadRows

\* the schema and the serialized lines of one upload, over the dataframe family
SpecRows == InitRows /\ [][NextRows]_vars

(* ------------------------------ claims -------------------------------- *)

\* how many requests of the last call went through `client`
CountSent(client) == Cardinality({i \in 1..Len(call.sent) : call.sent[i].client = client})

\* the statements of the last call with the given verb, over all its requests
CountVerb(verb) ==
    Cardinality({ij \in (1..Len(call.sent)) \X (1..5) :
                    /\ ij[2] <= Len(call.sent[ij[1]].query)
                    /\ call.sent[ij[1]].query[ij[2]].verb = verb})

ProbeRequest(table_name) ==
    [client |-> "sql", query |-> <<Stmt("EXPLAIN SELECT", FALSE, table_name, <<>>)>>]

UploadOn(policy) ==
    /\ call.op = "upload"
    /\ call.if_exists = policy
    /\ ~call.self.df.is_none

\* C1: upload with if_exists='fail' on a table that exists remotely raises the
\* 'already exists' error and sends neither a DDL batch nor a bulk copy.
ClaimC1 ==
    UploadOn(FAIL) /\ call.pre.exists =>
        /\ call.raised = [type |-> "NameError", msg |-> "already exists in CARTO",
                          detail |-> call.self.table_name]
        /\ CountSent("batch") = 0
        /\ CountSent("copy") = 0

\* C2: after a completed upload with if_exists='replace' on a pre-existing
\* table, the table holds exactly the rows of the uploaded dataframe: the
\* call sent the create batch (drop-if-exists, create) and then the bulk load.
ThmC2 ==
    UploadOn(REPLACE) /\ call.pre.exists /\ call.raised = NoExc =>
        /\ remote.exists
        /\ remote.rows = call.self.df.rows
        /\ CountSent("batch") = 1
        /\ CountVerb("DROP TABLE") = 1
        /\ CountVerb("CREATE TABLE") = 1
        /\ call.sent[Len(call.sent)].client = "copy"
        /\ call.sent[Len(call.sent) - 1].client = "batch"

WitC2 ==
    /\ UploadOn(REPLACE)
    /\ call.pre.exists
    /\ call.pre.rows # <<>>
    /\ call.pre.rows # call.self.df.rows
    /\ call.probe = "ok"
    /\ call.raised = NoExc

\* C3: after a completed upload with if_exists='append' on a pre-existing
\* table, the prior rows are still there, followed by the new ones, and the
\* call sent no DDL batch: the probe, then the bulk load.
ClaimC3 ==
    UploadOn(APPEND) /\ call.pre.exists /\ call.raised = NoExc =>
        /\ remote.rows = call.pre.rows \o call.self.df.rows
        /\ CountSent("batch") = 0
        /\ call.sent = <<ProbeRequest(call.self.table_name), call.sent[Len(call.sent)]>>
        /\ call.sent[Len(call.sent)].client = "copy"

\* C4: exists() called immediately after a successful upload() returns true,
\* and called immediately after a delete() of an uploaded (present) table
\* returns false.
ClaimC4 ==
    [][/\ (call.op = "upload" /\ call.raised = NoExc /\ call'.op = "exists"
              => call'.value = "True")
       /\ (call.op = "delete" /\ call.raised = NoExc /\ call.pre.exists /\ call'.op = "exists"
              => call'.value = "False")]_vars

\* C5: upload on a Dataset with no dataframe (every Dataset made by
\* create_from_query is one) raises the 'no data' error before the probe or
\* any other remote call, and leaves the remote table unchanged.
ThmC5 ==
    /\ call.op = "upload" /\ call.self.df.is_none =>
          /\ call.raised.type = "ValueError"
          /\ call.sent = <<>>
          /\ call.probe = "none"
          /\ remote = call.pre
    /\ call.op = "create_from_query" => ds.df.is_none /\ ds.normalized_column_names.is_none

WitC5 ==
    /\ call.op = "upload"
    /\ call.self.df.is_none
    /\ call.pre.exists
    /\ call.raised.type = "ValueError"

ClaimC9 ==
    CountSent("batch") > 0 /\ call.job # "done" =>
        /\ call.raised = [type |-> "CartoException", msg |-> "Cannot create table",
                          detail |-> call.failed_reason]
        /\ CountSent("batch") = 1
        /\ CountSent("copy") = 0

\* C10: exists never raises on a service error from the probe: it returns true
\* when the probe succeeds and false on any service error; upload and delete
\* never raise the error of a failing probe.
ThmC10 ==
    /\ call.op = "exists" =>
          /\ call.raised = NoExc
          /\ call.sent = <<ProbeRequest(call.self.table_name)>>
          /\ call.value = IF call.probe = "ok" THEN "True" ELSE "False"
    /\ call.op \in {"upload", "delete"} /\ call.probe \notin {"ok", "none"} =>
          ~(call.raised.type = "CartoException" /\ call.raised.msg = "sql api")

WitC10 ==
    /\ call.op = "exists"
    /\ call.pre.exists
    /\ call.probe = "service fault"
    /\ call.value = "False"

\* the leading rate-limit errors of the script of the last read
RateLimitsBefore(n) == \A i \in 1..n : rd.script[i].kind = "rate_limit"

\* the last read met n rate limits and then a success
FailsThenSucceeds(n) ==
    /\ n + 1 <= Len(rd.script)
    /\ RateLimitsBefore(n)
    /\ rd.script[n + 1].kind = "ok"

\* positions of the events of one kind in the last read
EventsAt(kind) == {i \in 1..Len(rd.events) : rd.events[i] = kind}

\* C7: n rate limits then a success, n <= retry_times: the wrapper sleeps
\* exactly n times, the i-th sleep for the retry_after of the i-th failure,
\* every re-invocation of the transport comes after such a sleep, and the
\* success is returned.
ThmC7 ==
    \A n \in 0..MaxRetry :
        rd.pc = "returned" /\ FailsThenSucceeds(n) /\ n <= rd.retry_times =>
            /\ Len(rd.sleeps) = n
            /\ Cardinality(EventsAt("sleep")) = n
            /\ \A i \in 1..n : rd.sleeps[i] = rd.script[i].retry_after
            /\ Cardinality(EventsAt("copyto_stream")) = n + 1
            /\ \A j \in EventsAt("copyto_stream") :
                  j > 1 => \E k \in EventsAt("sleep") :
                              /\ k < j
                              /\ ~\E m \in EventsAt("copyto_stream") : k < m /\ m < j
            /\ rd.raised = NoReadExc
            /\ rd.value = "stream"
            /\ rd.at = n + 1

\* the case of the spec: two failures with retry_after 2, retry_times 3
WitC7 ==
    /\ rd.pc = "returned"
    /\ FailsThenSucceeds(2)
    /\ rd.script[1].retry_after = 2
    /\ rd.script[2].retry_after = 2
    /\ rd.retry_times = 3
    /\ rd.sleeps = <<2, 2>>
    /\ rd.value = "stream"

\* C8: a rate limit met with no attempts left is re-raised to the caller and
\* no sleep follows it; with retry_times = 0 the first rate limit is raised
\* with no sleep at all.
ThmC8 ==
    rd.pc = "returned" /\ RateLimitsBefore(rd.retry_times + 1) =>
        /\ rd.raised = [type |-> "CartoRateLimitException",
                        retry_after |-> rd.script[rd.retry_times + 1].retry_after,
                        at |-> rd.retry_times + 1]
        /\ rd.value = None
        /\ Len(rd.sleeps) = rd.retry_times
        /\ Cardinality(EventsAt("sleep")) = rd.retry_times
        /\ \A k \in EventsAt("sleep") : \E j \in EventsAt("copyto_stream") : j > k
        /\ Cardinality(EventsAt("copyto_stream")) = rd.retry_times + 1
        /\ rd.retry_times = 0 => rd.sleeps = <<>> /\ rd.at = 1

WitC8 ==
    /\ rd.pc = "returned"
    /\ rd.retry_times = 0
    /\ rd.script[1].kind = "rate_limit"
    /\ rd.raised.type = "CartoRateLimitException"

\* the CREATE TABLE statements the last call sent
CreateTableStmts ==
    {call.sent[ij[1]].query[ij[2]] :
        ij \in {kl \in (1..Len(call.sent)) \X (1..5) :
                  /\ kl[2] <= Len(call.sent[kl[1]].query)
                  /\ call.sent[kl[1]].query[kl[2]].verb = "CREATE TABLE"}}

\* the data columns of the dataframe under their normalized names, in order
DataColumns(df) ==
    LET IsData(c) == c \notin {"cartodb_id", "the_geom", "the_geom_webmercator"}
        data == SelectSeq(df.columns, IsData)
    IN [i \in 1..Len(data) |-> normalize_name(data[i])]

\* the geometry type the dataframe shows: that of the first non-null value of
\* its geometry column when that value is a geometry, None otherwise
DetectedGeomType(df) ==
    LET geom_col == _get_geom_col_name(df)
        c == ColumnIndex(df, geom_col)
        present == {i \in 1..Len(df.cells) : df.cells[i][c].kind \notin {"none", "nan"}}
        first == df.cells[CHOOSE i \in present : \A j \in present : i <= j][c]
    IN IF geom_col = None \/ present = {} THEN None
       ELSE IF first.kind \in {"wkb_hex", "wkb_bytes", "wkt", "shapely"} THEN first.geom_type
       ELSE None

\* the geometry type C11 speaks of: Point in lon/lat mode, else the detected one
GeomTypeC11 ==
    IF ~call.with_lonlat.is_none THEN "Point" ELSE DetectedGeomType(call.self.df)

\* C11 (as claimed): every CREATE TABLE statement of upload declares the
\* normalized data columns in dataframe order followed by the_geom of type
\* geometry(T, 4326), T being Point in lon/lat mode and otherwise the detected
\* geometry type, for every dataframe, also one with no geometry column or
\* only null geometries.
ClaimC11 ==
    call.op = "upload" =>
        \A create \in CreateTableStmts :
            /\ create.args = DataColumns(call.self.df) \o <<"the_geom">>
            /\ create.types # <<>>
            /\ create.types[Len(create.types)] = "geometry(" \o GeomTypeC11 \o ", 4326)"

\* C11 (amended): every CREATE TABLE statement of upload declares the
\* normalized data columns in dataframe order, followed by the_geom of type
\* geometry(T, 4326) exactly when lon/lat mode is active (T is Point) or a
\* geometry type T is detected from the first non-null value of the geometry
\* column; otherwise it declares no the_geom column.
ThmC11 ==
    call.op = "upload" =>
        \A create \in CreateTableStmts :
            /\ Len(create.types) = Len(create.args)
            /\ IF GeomTypeC11 # None
               THEN /\ create.args = DataColumns(call.self.df) \o <<"the_geom">>
                    /\ create.types[Len(create.types)] = "geometry(" \o GeomTypeC11 \o ", 4326)"
               ELSE create.args = DataColumns(call.self.df)

WitC11 ==
    /\ call.op = "upload"
    /\ CreateTableStmts # {}
    /\ call.with_lonlat.is_none
    /\ DetectedGeomType(call.self.df) = "Polygon"
    /\ Len(call.self.df.cells) = 2

\* the COPY statements the last call sent
CopyStmts ==
    {call.sent[i].query[1] : i \in {k \in 1..Len(call.sent) : call.sent[k].client = "copy"}}

RECURSIVE Fields(_)
\* the fields of a serialized line, split at its separators
Fields(line) ==
    IF line = <<>> THEN <<"">>
    ELSE LET rest == Fields(Tail(line))
         IN IF Head(line).sep = "|" THEN <<Head(line).text>> \o rest
            ELSE <<Head(line).text \o Head(rest)>> \o Tail(rest)

\* the text a value is written as in a field: empty for a null
FieldText(cell) == IF cell.kind \in {"none", "nan"} THEN "" ELSE cell.text

\* each line has as many fields as the COPY command names columns
FieldCountC12 ==
    \A copy \in CopyStmts : \A i \in 1..Len(call.lines) :
        Len(Fields(call.lines[i])) = Len(copy.args)

\* C12: for every dataframe and every upload, each serialized line has
\* exactly as many fields, in the same order, as the column list of the COPY
\* command (normalized columns in order, then the_geom), and that list equals
\* the column list declared by the CREATE TABLE statement; columns excluded
\* from the normalized mapping contribute no field to the line.
ClaimC12 ==
    call.op = "upload" =>
        LET df == call.self.df
            pairs == call.self.normalized_column_names.pairs
        IN /\ FieldCountC12
           /\ \A copy \in CopyStmts :
                 /\ copy.args = [k \in 1..Len(pairs) |-> pairs[k][1]] \o <<"the_geom">>
                 /\ \A create \in CreateTableStmts : create.args = copy.args
                 /\ \A i \in 1..Len(call.lines) : \A k \in 1..Len(pairs) :
                       /\ k <= Len(Fields(call.lines[i]))
                       /\ Fields(call.lines[i])[k] = FieldText(df.cells[i][ColumnIndex(df, pairs[k][2])])

RECURSIVE ValuesC13(_, _, _, _)
\* the values of row i in the columns cols[k..], the geometry column left out,
\* each followed by the separator
ValuesC13(df, i, cols, k) ==
    IF k > Len(cols) THEN ""
    ELSE (IF cols[k] = _get_geom_col_name(df) THEN ""
          ELSE FieldText(df.cells[i][ColumnIndex(df, cols[k])]) \o "|")
         \o ValuesC13(df, i, cols, k + 1)

\* the final field of row i: the geometry of its geometry column, if it is one
GeometryC13(df, i) ==
    LET c == ColumnIndex(df, _get_geom_col_name(df))
    IN IF c = 0 THEN ""
       ELSE IF df.cells[i][c].kind \in {"wkb_hex", "wkb_bytes", "wkt", "shapely"}
       THEN "SRID=4326;" \o df.cells[i][c].wkt
       ELSE ""

\* C13: without lon/lat mode, _rows serializes each row as its non-geometry
\* column values in column order, each followed by the separator (a null as
\* an empty field), then the decoded value of the geometry column, wherever
\* that column sits, as the final field SRID=4326;<WKT>, then a newline; the
\* row [id=1, name=A, the_geom=point(1,2)] yields 1|A|SRID=4326;POINT(1 2).
ThmC13 ==
    call.op = "upload" /\ call.with_lonlat.is_none =>
        LET df == call.self.df
        IN \A i \in 1..Len(call.lines) :
              /\ LineText(call.lines[i])
                    = ValuesC13(df, i, CopyCols(df), 1) \o GeometryC13(df, i) \o "\n"
              /\ df.columns = <<"ID", "name", "the_geom">>
                    /\ df.cells[i] = <<Val("1"), Val("A"), HexWkbPoint>>
                 => LineText(call.lines[i]) = "1|A|SRID=4326;POINT(1 2)\n"

WitC13 ==
    /\ call.op = "upload"
    /\ call.with_lonlat.is_none
    /\ Len(call.lines) = 2
    /\ LineText(call.lines[1]) = "1|A|SRID=4326;POINT(1 2)\n"
    /\ LineText(call.lines[2]) = "1||\n"

\* the value row i holds in the column, None when the dataframe has no such column
ValueAt(df, i, col) ==
    IF HasColumn(df, col) THEN df.cells[i][ColumnIndex(df, col)] ELSE PyNone

\* the last field of a line
LastField(line) == Fields(line)[Len(Fields(line))]

\* C14: in lon/lat mode _rows appends the trailing field
\* SRID=4326;POINT(<lon> <lat>) for a row exactly when both the longitude and
\* the latitude value of the row are present (non-null); when either is null
\* or missing no point is synthesized and the geometry field is empty.
ClaimC14 ==
    call.op = "upload" /\ ~call.with_lonlat.is_none =>
        \A i \in 1..Len(call.lines) :
            LET lng == ValueAt(call.self.df, i, call.with_lonlat.lng)
                lat == ValueAt(call.self.df, i, call.with_lonlat.lat)
            IN IF lng.kind \notin {"none", "nan"} /\ lat.kind \notin {"none", "nan"}
               THEN LastField(call.lines[i]) = "SRID=4326;POINT(" \o lng.text \o " " \o lat.text \o ")"
               ELSE LastField(call.lines[i]) = ""

\* the dataframe holding row i of df alone
OnlyRow(df, i) ==
    [df EXCEPT !.rows = <<df.rows[i]>>, !.cells = <<df.cells[i]>>, !.index = <<df.index[i]>>]

\* the line ends with its only newline
NewlineTerminated(line) ==
    /\ line # <<>>
    /\ line[Len(line)].sep = "\n"
    /\ \A k \in 1..(Len(line) - 1) : line[k].sep # "\n"

\* C15: _rows is finite and yields exactly one newline-terminated line per
\* dataframe row, in dataframe row order, for every dataframe and every
\* lon/lat setting, including rows whose geometry is null or does not decode.
ThmC15 ==
    call.op = "upload" =>
        LET df == call.self.df
        IN /\ Len(call.lines) = Len(df.cells)
           /\ \A i \in 1..Len(call.lines) :
                 /\ NewlineTerminated(call.lines[i])
                 /\ <<call.lines[i]>> = _rows(OnlyRow(df, i), CopyCols(df), call.with_lonlat,
                                              _get_geom_col_name(df))

WitC15 ==
    /\ call.op = "upload"
    /\ call.self.df.columns = <<"the_geom", "ID">>
    /\ Len(call.lines) = 2
    /\ call.self.df.cells[1][1] = Garbage
    /\ call.self.df.cells[2][1] = WkbPolygon
    /\ LineText(call.lines[1]) = "1|\n"
    /\ LineText(call.lines[2]) = "1|SRID=4326;POLYGON ((0 0, 1 0, 1 1, 0 0))\n"

\* C16: when the catalog query of get_table_columns (and hence of download)
\* fails with a service error other than access denied, the failure is fatal:
\* it is raised to the caller with the reason the service gave, and is not
\* swallowed or turned into a result.
ClaimC16 ==
    call.op \in {"get_table_columns", "download"} /\ call.answer = "service fault" =>
        /\ call.raised = ServiceError("service fault")
        /\ call.value = None

\* the descriptors of the columns the table had when the call began
DescriptorsC17 ==
    [i \in 1..Len(call.pre.columns) |->
        [name |-> call.pre.columns[i].name, pgtype |-> call.pre.columns[i].pgtype]]

\* C17 (as claimed): get_table_columns returns the descriptors of the catalog
\* query when it succeeds; when it fails with access denied exactly one
\* zero-row probe is sent and the descriptors of its fields are returned, so
\* a column list is returned in both cases.
ClaimC17 ==
    call.op = "get_table_columns" /\ call.answer \in {"rows", "Access denied"} =>
        /\ call.raised = NoExc
        /\ call.value = "list"
        /\ call.columns = DescriptorsC17
        /\ CountVerb("SELECT * LIMIT 0") = (IF call.answer = "rows" THEN 0 ELSE 1)

\* C17 (amended): get_table_columns returns the descriptors of the catalog
\* query when it succeeds; when it fails with access denied exactly one
\* zero-row probe is sent, and the descriptors of its fields are returned if
\* the probe succeeds; if the probe fails (the table does not exist) its
\* error is raised and nothing is returned.
ThmC17 ==
    call.op = "get_table_columns" /\ call.answer \in {"rows", "Access denied"} =>
        /\ CountVerb("SELECT information_schema.columns") = 1
        /\ CountVerb("SELECT * LIMIT 0") = (IF call.answer = "rows" THEN 0 ELSE 1)
        /\ Len(call.sent) = (IF call.answer = "rows" THEN 1 ELSE 2)
        /\ IF call.answer = "rows" \/ call.pre.exists
           THEN /\ call.raised = NoExc
                /\ call.value = "list"
                /\ call.columns = DescriptorsC17
           ELSE /\ call.raised = ServiceError("statement failed")
                /\ call.value = None
                /\ call.columns = <<>>

WitC17 ==
    /\ call.op = "get_table_columns"
    /\ call.answer = "Access denied"
    /\ call.pre.exists
    /\ Len(call.columns) = 5
    /\ call.columns[5].name = "the_geom_webmercator"

\* the queries the last call handed to fetch
FetchedC18 ==
    {call.sent[i].query[1] : i \in {k \in 1..Len(call.sent) : call.sent[k].client = "fetch"}}

\* C18: download with a limit that is negative or not an integer raises a
\* fatal input error and never executes the fetch; with limit absent the
\* query has no LIMIT clause, with an integer limit n >= 0 it ends with
\* LIMIT n; the_geom_webmercator is never among the selected columns.
ClaimC18 ==
    call.op = "download" =>
        /\ call.limit.kind \in {"float", "str"} \/ (call.limit.kind = "int" /\ call.limit.n < 0) =>
              /\ call.raised = LimitError
              /\ FetchedC18 = {}
        /\ \A query \in FetchedC18 :
              /\ call.limit.kind = "none" => query.limit = None
              /\ call.limit.kind = "int" => query.limit = ToString(call.limit.n)
              /\ \A k \in 1..Len(query.args) : query.args[k] # "the_geom_webmercator"

\* the column mapping the constructor computes for a dataframe: a pair
\* (normalized, original) for each column that is not reserved, in order
MappingC19(df) ==
    LET Kept(c) == c \notin {"cartodb_id", "the_geom", "the_geom_webmercator"}
        kept == SelectSeq(df.columns, Kept)
    IN [i \in 1..Len(kept) |-> <<normalize_name(kept[i]), kept[i]>>]

\* C19: for a Dataset constructed with a dataframe the normalized-column
\* mapping is set at construction and is never changed by any later sequence
\* of upload, download, delete, exists or get_table_columns calls, whether
\* they succeed or raise; for a Dataset constructed without a dataframe the
\* mapping stays unset.
ThmC19 ==
    /\ ds.df.is_none <=> ds.normalized_column_names.is_none
    /\ ~ds.df.is_none => ds.normalized_column_names.pairs = MappingC19(ds.df)
    /\ call.op \notin {"__init__", "create_from_query"} => ds = call.self

WitC19 ==
    /\ call.op = "upload"
    /\ call.raised.type = "NameError"
    /\ ds.normalized_column_names.pairs = <<<<"idx", "idx">>, <<"lon", "Lon">>, <<"lat", "lat">>>>

\* C20: the remote table is changed only by upload, delete and
\* create_from_query: exists, download, get_table_columns and
\* get_table_column_names send only read-only queries, never a batch, a DROP
\* or a bulk load, and leave the existence and the rows of the table unchanged.
ThmC20 ==
    /\ call.op \notin {"upload", "delete", "create_from_query"} => remote = call.pre
    /\ call.op \in {"exists", "download", "get_table_columns", "get_table_column_names"} =>
          /\ call.sent # <<>>
          /\ \A i \in 1..Len(call.sent) :
                /\ call.sent[i].client \in {"sql", "fetch"}
                /\ \A k \in 1..Len(call.sent[i].query) :
                      call.sent[i].query[k].verb \in ReadOnlyVerbs
          /\ CountSent("batch") = 0
          /\ CountSent("copy") = 0
          /\ CountVerb("DROP TABLE") = 0

WitC20 ==
    /\ call.op = "download"
    /\ call.value = "dataframe"
    /\ call.limit = IntLimit(2)
    /\ remote.exists
    /\ Len(remote.rows) = 3
    /\ remote = call.pre

\* C21: existence is never cached: each exists, upload and delete call sends
\* a fresh probe, so the answer reflects the state of the remote table at the
\* time of that call, also when another client created or dropped the table
\* since the previous call of the handle.
ClaimC21 ==
    \/ call.op \in {"exists", "delete"}
    \/ call.op = "upload" /\ ~call.self.df.is_none
    =>
        /\ call.sent # <<>>
        /\ call.sent[1] = ProbeRequest(call.self.table_name)
        /\ CountVerb("EXPLAIN SELECT") = 1
        /\ call.probe = "ok" <=> call.pre.exists
        /\ call.op = "exists" => (call.value = "True" <=> call.pre.exists)
        /\ call.op = "delete" => (call.value = "True" <=> call.pre.exists)

\* the decode attempts up to and including the first that loads the value
AttemptsC22(v) ==
    LET loads == {i \in 1..5 : DecoderLoads(Decoders[i], v)}
    IN IF loads = {} THEN Decoders
       ELSE SubSeq(Decoders, 1, CHOOSE i \in loads : \A j \in loads : i <= j)

\* C22: with the geometry library present _decode_geom never raises: a null
\* or empty input returns null without trying any decoder, an
\* already-structured geometry is returned unchanged, and otherwise the
\* decoders are tried in a fixed order, each failure falling through to the
\* next, returning the first success or null when all fail.
ThmC22 ==
    geo.pc = "returned" /\ geo.installed =>
        LET v == geo.ewkb
            res == geo.result
        IN /\ res.raised = None
           /\ v.kind \in {"none", "empty_str"} => ~res.ok /\ res.tried = <<>>
           /\ v.kind = "shapely" =>
                 res.ok /\ res.tried = <<>> /\ res.wkt = v.wkt /\ res.geom_type = v.geom_type
           /\ v.kind \notin {"none", "empty_str", "shapely"} =>
                 /\ res.tried = AttemptsC22(v)
                 /\ res.ok <=> \E i \in 1..5 : DecoderLoads(Decoders[i], v)
                 /\ res.ok => /\ res.wkt = v.wkt
                             /\ res.geom_type = v.geom_type
                             /\ res.by = Len(res.tried)
                 /\ ~res.ok => Len(res.tried) = 5
           /\ ~res.ok => res.wkt = None /\ res.geom_type = None

WitC22 ==
    /\ geo.pc = "returned"
    /\ geo.installed
    /\ geo.ewkb.kind = "wkb_bytes"
    /\ geo.result.ok
    /\ geo.result.tried = SubSeq(Decoders, 1, 4)
    /\ geo.result.geom_type = "Polygon"

\* C23: constructing a Dataset on a dataframe whose index is named and whose
\* index name is not a column promotes the index to a column and keeps it as
\* the index: the index values are those of the index before and the column
\* of that name holds the same values; a dataframe with an unnamed index, or
\* whose index name is already a column, is left unchanged.
ThmC23 ==
    call.op = "__init__" /\ ~call.df.is_none =>
        LET df == call.df
            out == ds.df
        IN IF df.index_name # None /\ ~HasColumn(df, df.index_name)
           THEN /\ out.index_name = df.index_name
                /\ out.index = df.index
                /\ out.rows = df.rows
                /\ out.columns = <<df.index_name>> \o df.columns
                /\ out.dtypes = <<df.index_dtype>> \o df.dtypes
                /\ \A i \in 1..Len(df.rows) :
                      /\ out.cells[i][ColumnIndex(out, df.index_name)] = out.index[i]
                      /\ Tail(out.cells[i]) = df.cells[i]
           ELSE out = df

WitC23 ==
    /\ call.op = "__init__"
    /\ call.df.index_name = "idx"
    /\ Len(call.df.rows) = 2
    /\ ds.df.columns[1] = "idx"
    /\ ds.df.index = <<Val("10"), Val("11")>>
    /\ ds.df.cells[2][1] = Val("11")

\* the clients of the requests of the last call, in the order they were sent
ClientsC24 == [i \in 1..Len(call.sent) |-> call.sent[i].client]

\* the request is one batch BEGIN; drop-if-exists; create; cartodbfy; COMMIT
\* on the table, its create statement of the given verb
BatchFormC24(request, table_name, create) ==
    /\ request.client = "batch"
    /\ Len(request.query) = 5
    /\ request.query[1] = Begin
    /\ request.query[2] = Stmt("DROP TABLE", TRUE, table_name, <<>>)
    /\ request.query[3].verb = create
    /\ request.query[3].table = table_name
    /\ request.query[4] = Stmt("SELECT CDB_CartodbfyTable", FALSE, table_name, <<>>)
    /\ request.query[5] = Commit

\* C24: each table creation (the create path of upload, create_from_query)
\* submits exactly one batch BEGIN; drop-if-exists; create; cartodbfy; COMMIT
\* in that order, and the bulk load is sent only after the job of the batch
\* is done; the requests of one upload are the probe, then (when the table is
\* created) that one batch, then the copy.
ThmC24 ==
    /\ call.op = "create_from_query" =>
          /\ Len(call.sent) = 1
          /\ BatchFormC24(call.sent[1], ds.table_name, "CREATE TABLE AS")
          /\ call.job \in {"done", "failed"}
    /\ UploadOn(call.if_exists) =>
          /\ ClientsC24 \in {<<"sql">>, <<"sql", "batch">>, <<"sql", "copy">>,
                              <<"sql", "batch", "copy">>}
          /\ call.sent[1] = ProbeRequest(call.self.table_name)
          /\ (call.probe # "ok" \/ call.if_exists = REPLACE) <=> CountSent("batch") = 1
          /\ CountSent("batch") = 1 =>
                /\ BatchFormC24(call.sent[2], call.self.table_name, "CREATE TABLE")
                /\ call.job \in {"done", "failed"}
                /\ CountSent("copy") = 1 <=> call.job = "done"

WitC24 ==
    /\ UploadOn(REPLACE)
    /\ call.pre.exists
    /\ ClientsC24 = <<"sql", "batch", "copy">>
    /\ call.job = "done"
    /\ call.raised = NoExc

\* C25: recursive_read always terminates: whatever the transport answers, a
\* transport rate-limited on every call included, a call returns a result or
\* raises, having invoked the transport at most retry_times + 1 times and
\* slept at most retry_times times.
ThmC25 ==
    /\ [](rd.pc = "returned" =>
            /\ Cardinality(EventsAt("copyto_stream")) <= rd.retry_times + 1
            /\ rd.at <= rd.retry_times + 1
            /\ Cardinality(EventsAt("sleep")) <= rd.retry_times
            /\ Len(rd.sleeps) <= rd.retry_times
            /\ rd.value = "stream" <=> rd.raised = NoReadExc
            /\ rd.value \in {"stream", None})
    /\ <>(rd.pc = "returned")

\* the transport is rate-limited on every call
WitC25 ==
    /\ rd.pc = "returned"
    /\ rd.retry_times = MaxRetry
    /\ \A i \in 1..Len(rd.script) : rd.script[i].kind = "rate_limit"
    /\ Cardinality(EventsAt("copyto_stream")) = MaxRetry + 1
    /\ Len(rd.sleeps) = MaxRetry
    /\ rd.raised.type = "CartoRateLimitException"

\* C26: upload with if_exists='fail' never drops, replaces or alters the rows
\* of a table that exists remotely when the call starts, whatever the probe
\* answers: the table after the call is the table before it.
ClaimC26 ==
    UploadOn(FAIL) /\ call.pre.exists =>
        /\ remote = call.pre
        /\ CountVerb("DROP TABLE") = 0
        /\ CountVerb("CREATE TABLE") = 0
        /\ CountSent("copy") = 0

\* the positions of the geometry values of a line: the chunks _rows writes
\* as SRID=4326;..., the only ones followed by no separator
GeometryValuesC27(line) == {k \in 1..Len(line) : line[k].sep = ""}

\* C27: every line produced by _rows holds at most one geometry value (at
\* most one SRID=4326;... value) and it is the last field of the line, in
\* lon/lat mode too, also when the dataframe has a detected geometry column
\* that the reserved-name test does not skip.
ClaimC27 ==
    call.op = "upload" =>
        \A i \in 1..Len(call.lines) :
            /\ Cardinality(GeometryValuesC27(call.lines[i])) <= 1
            /\ \A k \in GeometryValuesC27(call.lines[i]) : k = Len(call.lines[i]) - 1

\* C28: two handles on the same table name each run upload with
\* if_exists='fail' against an absent table; when both have returned, at most
\* one of them completed without error and the table holds the rows of
\* exactly one of the two dataframes.
ClaimC28 ==
    hs # NoHandles /\ (\A h \in 1..2 : hs[h].pc = "returned") =>
        /\ Cardinality({h \in 1..2 : hs[h].raised = NoExc}) <= 1
        /\ remote.exists
        /\ \E h \in 1..2 : remote.rows = hs[h].self.df.rows

====
